---------------------------- MODULE Spec2Model ----------------------------
(***************************************************************************)
(* Model of adc1_cal.py: class ADC1Cal, the ESP32 ADC1 voltage calibration *)
(* engine (V_ref calibration, linear coefficients, 11 dB lookup table,     *)
(* region blending, sample averaging).                                     *)
(*                                                                         *)
(* Python integers are unbounded and "/" is true division.  Every value    *)
(* the engine computes with "/" is modelled as an exact non-negative       *)
(* rational [num, den] whose parts are unbounded naturals, kept as         *)
(* little-endian sequences of limbs, so that products such as              *)
(* vref * scale * raw (about 10^12) are computed exactly.                  *)
(***************************************************************************)
EXTENDS Integers, Sequences, FiniteSets, TLC

---------------------------------------------------------------------------
(* Module constants, adc1_cal.py lines 95-128 *)

EFUSE_ADC_VREF == 31
ADC_12_BIT_RES == 4096
LIN_COEFF_A_SCALE == 65536
LIN_COEFF_A_ROUND == 32768
ADC1_VREF_ATTEN_SCALE == <<57431, 76236, 105481, 196602>>
ADC1_VREF_ATTEN_OFFSET == <<75, 78, 107, 142>>
VREF_OFFSET == 1100
VREF_STEP_SIZE == 7
VREF_FORMAT == 0
VREF_MASK == 31
LUT_VREF_LOW == 1000
LUT_VREF_HIGH == 1200
LUT_ADC_STEP_SIZE == 64
LUT_POINTS == 20
LUT_LOW_THRESH == 2880
LUT_HIGH_THRESH == LUT_LOW_THRESH + LUT_ADC_STEP_SIZE
lut_adc1_low == <<2240, 2297, 2352, 2405, 2457, 2512, 2564, 2616, 2664, 2709,
                  2754, 2795, 2832, 2868, 2903, 2937, 2969, 3000, 3030, 3060>>
lut_adc1_high == <<2667, 2706, 2745, 2780, 2813, 2844, 2873, 2901, 2928, 2956,
                   2982, 3006, 3032, 3059, 3084, 3110, 3135, 3160, 3184, 3209>>

(* machine.ADC attenuation and width codes used by the class *)
ATTN_0DB == 0
ATTN_2_5DB == 1
ATTN_6DB == 2
ATTN_11DB == 3
WIDTH_9BIT == 0
WIDTH_12BIT == 3

(* Python's None, for the integer-valued attributes and arguments *)
None == -1000

---------------------------------------------------------------------------
(* Unbounded naturals: little-endian limb sequences without leading zero   *)
(* limbs; zero is the empty sequence.                                      *)

LimbBase == 100 * 100

RECURSIVE BigOf(_)
BigOf(n) == IF n = 0 THEN <<>> ELSE <<n % LimbBase>> \o BigOf(n \div LimbBase)

RECURSIVE BigAddC(_, _, _)
BigAddC(a, b, c) ==
    IF a = <<>> /\ b = <<>> THEN (IF c = 0 THEN <<>> ELSE <<c>>)
    ELSE LET x == IF a = <<>> THEN 0 ELSE Head(a)
             y == IF b = <<>> THEN 0 ELSE Head(b)
             s == x + y + c
         IN  <<s % LimbBase>> \o
             BigAddC(IF a = <<>> THEN a ELSE Tail(a),
                     IF b = <<>> THEN b ELSE Tail(b), s \div LimbBase)

BigAdd(a, b) == BigAddC(a, b, 0)

RECURSIVE BigTrim(_)
BigTrim(a) ==
    IF a = <<>> THEN a
    ELSE IF a[Len(a)] = 0 THEN BigTrim(SubSeq(a, 1, Len(a) - 1)) ELSE a

(* a - b for a >= b *)
RECURSIVE BigSubC(_, _, _)
BigSubC(a, b, c) ==
    IF a = <<>> THEN <<>>
    ELSE LET y == IF b = <<>> THEN 0 ELSE Head(b)
             d == Head(a) - y - c
         IN  <<d % LimbBase>> \o
             BigSubC(Tail(a), IF b = <<>> THEN b ELSE Tail(b),
                     IF d < 0 THEN 1 ELSE 0)

BigSub(a, b) == BigTrim(BigSubC(a, b, 0))

(* a * d for one limb d *)
RECURSIVE BigMulLimbC(_, _, _)
BigMulLimbC(a, d, c) ==
    IF a = <<>> THEN (IF c = 0 THEN <<>> ELSE <<c>>)
    ELSE LET p == Head(a) * d + c
         IN  <<p % LimbBase>> \o BigMulLimbC(Tail(a), d, p \div LimbBase)

BigShift(a) == IF a = <<>> THEN a ELSE <<0>> \o a

RECURSIVE BigMul(_, _)
BigMul(a, b) ==
    IF a = <<>> \/ b = <<>> THEN <<>>
    ELSE BigAdd(IF Head(b) = 0 THEN <<>> ELSE BigMulLimbC(a, Head(b), 0),
                BigShift(BigMul(a, Tail(b))))

(* a <= b *)
RECURSIVE BigLeFrom(_, _, _)
BigLeFrom(a, b, i) ==
    IF i = 0 THEN TRUE
    ELSE IF a[i] # b[i] THEN a[i] < b[i] ELSE BigLeFrom(a, b, i - 1)

BigLe(a, b) ==
    IF Len(a) # Len(b) THEN Len(a) < Len(b) ELSE BigLeFrom(a, b, Len(a))

---------------------------------------------------------------------------
(* Exact non-negative rationals: the values of Python's int and float      *)
(* expressions of the engine.                                              *)

Rat(n, d) == [num |-> BigOf(n), den |-> BigOf(d)]

RatAdd(x, y) ==
    IF x.den = y.den THEN [num |-> BigAdd(x.num, y.num), den |-> x.den]
    ELSE [num |-> BigAdd(BigMul(x.num, y.den), BigMul(y.num, x.den)),
          den |-> BigMul(x.den, y.den)]

(* x - y for x >= y *)
RatSub(x, y) ==
    IF x.den = y.den THEN [num |-> BigSub(x.num, y.num), den |-> x.den]
    ELSE [num |-> BigSub(BigMul(x.num, y.den), BigMul(y.num, x.den)),
          den |-> BigMul(x.den, y.den)]

RatMul(x, y) == [num |-> BigMul(x.num, y.num), den |-> BigMul(x.den, y.den)]

(* x / y for y > 0 *)
RatDiv(x, y) == [num |-> BigMul(x.num, y.den), den |-> BigMul(x.den, y.num)]

RatEq(x, y) == BigMul(x.num, y.den) = BigMul(y.num, x.den)

RatLe(x, y) == BigLe(BigMul(x.num, y.den), BigMul(y.num, x.den))

---------------------------------------------------------------------------
(* Python integer operators used by the class *)

RECURSIVE AndNat(_, _)
AndNat(a, b) ==
    IF a = 0 \/ b = 0 THEN 0
    ELSE 2 * AndNat(a \div 2, b \div 2) + (IF a % 2 = 1 /\ b % 2 = 1 THEN 1 ELSE 0)

(* Two's complement window wide enough for every operand of decode_bits *)
IntWindow == 4096 * 4096

(* x & y on Python ints of which at least one is non-negative *)
PyAnd(x, y) == AndNat(x % IntWindow, y % IntWindow)

(* ~x *)
PyInvert(x) == -x - 1

(* x >> k and x << k for x >= 0 *)
RECURSIVE Pow2(_)
Pow2(k) == IF k = 0 THEN 1 ELSE 2 * Pow2(k - 1)

PyShr(x, k) == x \div Pow2(k)

PyShl(x, k) == x * Pow2(k)

(* list[i]: 0-based, negative i counts from the end; "IndexError" otherwise *)
PyIndexOk(list, i) == i >= -Len(list) /\ i < Len(list)

PyIndex(list, i) == IF i >= 0 THEN list[i + 1] ELSE list[Len(list) + i + 1]

(* int(a / b) for b > 0: true division, then truncation toward zero *)
PyIntDiv(a, b) == IF a >= 0 THEN a \div b ELSE -((-a) \div b)

(* int(round(a / n)) for a >= 0, n > 0: round half to even *)
PyRoundDiv(a, n) ==
    LET q == a \div n
        r == a % n
    IN  IF 2 * r < n THEN q
        ELSE IF 2 * r > n THEN q + 1
        ELSE IF q % 2 = 0 THEN q ELSE q + 1

---------------------------------------------------------------------------
(* Pure methods of ADC1Cal *)

(* decode_bits taking the whole field, sign bit included, as magnitude *)
decode_bits_fullmask(bits, mask, is_twos_compl) ==
    IF PyAnd(PyAnd(bits, PyInvert(PyShr(mask, 1))), mask) # 0
    THEN IF is_twos_compl # 0
         THEN -(PyAnd(PyInvert(bits) + 1, mask))
         ELSE -(PyAnd(bits, mask))
    ELSE PyAnd(bits, PyShr(mask, 1))

(* decode_bits negating without the "+ 1" of two's complement *)
decode_bits_onescompl(bits, mask, is_twos_compl) ==
    IF PyAnd(PyAnd(bits, PyInvert(PyShr(mask, 1))), mask) # 0
    THEN IF is_twos_compl # 0
         THEN -(PyAnd(PyInvert(bits), PyShr(mask, 1)))
         ELSE -(PyAnd(bits, PyShr(mask, 1)))
    ELSE PyAnd(bits, PyShr(mask, 1))

(* decode_bits(bits, mask, is_twos_compl), lines 217-239 *)
decode_bits(bits, mask, is_twos_compl) ==
    IF PyAnd(PyAnd(bits, PyInvert(PyShr(mask, 1))), mask) # 0
    THEN IF is_twos_compl # 0
         THEN -(PyAnd(PyInvert(bits) + 1, PyShr(mask, 1)))
         ELSE -(PyAnd(bits, PyShr(mask, 1)))
    ELSE PyAnd(bits, PyShr(mask, 1))

(* read_efuse_vref taking the field from bits [4:0] instead of [12:8] *)
read_efuse_vref_noshift(reg) ==
    LET bits == PyAnd(reg, VREF_MASK)
    IN  VREF_OFFSET + decode_bits(bits, VREF_MASK, VREF_FORMAT) * VREF_STEP_SIZE

(* read_efuse_vref(), lines 197-215; reg is machine.mem32[_VREF_REG] *)
read_efuse_vref(reg) ==
    LET bits == PyAnd(PyShr(reg, 8), VREF_MASK)
    IN  VREF_OFFSET + decode_bits(bits, VREF_MASK, VREF_FORMAT) * VREF_STEP_SIZE

(* calculate_voltage_lut(adc), lines 242-263 *)
lut_index(adc) == PyIntDiv(adc - LUT_LOW_THRESH, LUT_ADC_STEP_SIZE)

lut_x2dist(vref) == LUT_VREF_HIGH - vref

lut_x1dist(vref) == vref - LUT_VREF_LOW

lut_index_ok(adc) ==
    /\ PyIndexOk(lut_adc1_low, lut_index(adc))
    /\ PyIndexOk(lut_adc1_low, lut_index(adc) + 1)
    /\ PyIndexOk(lut_adc1_high, lut_index(adc))
    /\ PyIndexOk(lut_adc1_high, lut_index(adc) + 1)

calculate_voltage_lut(vref, adc) ==
    LET i == lut_index(adc)
        x2dist == lut_x2dist(vref)
        x1dist == lut_x1dist(vref)
        y2dist == ((i + 1) * LUT_ADC_STEP_SIZE) + LUT_LOW_THRESH - adc
        y1dist == adc - ((i * LUT_ADC_STEP_SIZE) + LUT_LOW_THRESH)
        q11 == PyIndex(lut_adc1_low, i)
        q12 == PyIndex(lut_adc1_low, i + 1)
        q21 == PyIndex(lut_adc1_high, i)
        q22 == PyIndex(lut_adc1_high, i + 1)
        voltage == (q11 * x2dist * y2dist) + (q21 * x1dist * y2dist)
                   + (q12 * x2dist * y1dist) + (q22 * x1dist * y1dist)
    IN  Rat(voltage, (LUT_VREF_HIGH - LUT_VREF_LOW) * LUT_ADC_STEP_SIZE)

(* interpolate_two_points(y1, y2, x_step, x), lines 265-267 *)
interpolate_two_points(y1, y2, x_step, x) ==
    RatDiv(RatAdd(RatSub(RatAdd(RatMul(y1, Rat(x_step, 1)),
                                RatMul(y2, Rat(x, 1))),
                         RatMul(y1, Rat(x, 1))),
                  RatDiv(Rat(x_step, 1), Rat(2, 1))),
           Rat(x_step, 1))

(* calculate_voltage_linear(raw_val), lines 269-271 *)
calculate_voltage_linear(coeff_a, coeff_b, raw_val) ==
    RatAdd(RatDiv(RatAdd(RatMul(coeff_a, Rat(raw_val, 1)),
                         Rat(LIN_COEFF_A_ROUND, 1)),
                  Rat(LIN_COEFF_A_SCALE, 1)),
           Rat(coeff_b, 1))

---------------------------------------------------------------------------
(* The ADC1Cal object, the machine.ADC peripheral it extends, and the      *)
(* outcome of the last call made on the object.                            *)

VARIABLES
    self,   \* attributes of the ADC1Cal instance
    adc,    \* configuration held by the machine.ADC base class (peripheral)
    last,   \* the last call: its name, argument, exception and results
    conc,   \* positions of two execution contexts sharing the object
    fuse    \* inputs and results of the efuse decoding functions

vars == <<self, adc, last, conc, fuse>>

(* Bound of the model: the largest sample count given to the constructor *)
MaxSamples == 2

(* Inputs: constructor arguments, arguments of atten() and width() (the    *)
(* four levels, one value below and one above), contents of the efuse      *)
(* register, and the 12-bit codes the sampled values are taken around      *)
DivArgs == {1, 2}
VrefArgs == {None, 1065}
SamplesArgs == 0 .. MaxSamples
ConfigArgs == {-1, 0, 1, 2, 3, 4}
EfuseRegs == {0, 8191}
KeyCodes == {0, LUT_LOW_THRESH, LUT_HIGH_THRESH}

ValidLevels == ATTN_0DB .. ATTN_11DB

NoRat == Rat(0, 1)

NoCall == [op |-> "new", arg |-> None, err |-> "none", raw |-> None,
           lut |-> None, voltage |-> NoRat]

Idle == [pcA |-> "idle", argA |-> None, pcR |-> "idle", raw |-> None,
         selAtten |-> None, usedA |-> NoRat, usedB |-> None,
         overlap |-> FALSE, voltage |-> NoRat]

NoFuse == [reg |-> 0, mask |-> 0, resolved |-> FALSE, vref |-> 0,
           decoded |-> FALSE, bits |-> 0, twos |-> 0, signmag |-> 0]

(* machine.ADC as created by super().__init__(pin): 0 dB, 12 bit *)
NewADC == [atten |-> ATTN_0DB, width |-> WIDTH_12BIT]

(* The instance before __init__ has assigned anything *)
NewSelf == [vref |-> None, div |-> None, width |-> None, samples |-> None,
            atten |-> None, coeff_a |-> NoRat, coeff_b |-> None]

(* super().atten(attenuation), line 179: the base class takes every valid  *)
(* level; whether it raises on any other value is not decided by this      *)
(* class, so both outcomes are modelled (lenient).                         *)
ADC_atten_accepts(attenuation, lenient) ==
    attenuation \in ValidLevels \/ lenient

(* coeff_a divided by the fixed-point scale instead of the ADC resolution *)
atten_coeff_a_unscaled(vref, attenuation) ==
    RatDiv(Rat(vref * PyIndex(ADC1_VREF_ATTEN_SCALE, attenuation), 1),
           Rat(LIN_COEFF_A_SCALE, 1))

(* line 180 *)
atten_coeff_a(vref, attenuation) ==
    RatDiv(Rat(vref * PyIndex(ADC1_VREF_ATTEN_SCALE, attenuation), 1),
           Rat(ADC_12_BIT_RES, 1))

(* coeff_b left at the offset of the constructor's attenuation *)
atten_coeff_b_default(attenuation) ==
    PyIndex(ADC1_VREF_ATTEN_OFFSET, ATTN_6DB)

(* line 181 *)
atten_coeff_b(attenuation) == PyIndex(ADC1_VREF_ATTEN_OFFSET, attenuation)

(* line 182 *)
atten_record(attenuation) == attenuation

(* atten(attenuation), lines 167-182 *)
atten_call(s, h, attenuation, lenient) ==
    IF ~ADC_atten_accepts(attenuation, lenient)
    THEN [self |-> s, adc |-> h, err |-> "ValueError"]
    ELSE LET h1 == [h EXCEPT !.atten = attenuation]
         IN  IF ~PyIndexOk(ADC1_VREF_ATTEN_SCALE, attenuation)
             THEN [self |-> s, adc |-> h1, err |-> "IndexError"]
             ELSE [self |-> [s EXCEPT
                                !.coeff_a = atten_coeff_a(s.vref, attenuation),
                                !.coeff_b = atten_coeff_b(attenuation),
                                !.atten = atten_record(attenuation)],
                   adc |-> h1, err |-> "none"]

(* the assert of width(), line 193 *)
width_assert(adc_width) == adc_width >= 0 /\ adc_width < 4

(* width(adc_width), lines 184-195 *)
width_call(s, h, adc_width) ==
    IF ~width_assert(adc_width)
    THEN [self |-> s, adc |-> h, err |-> "AssertionError"]
    ELSE [self |-> [s EXCEPT !.width = adc_width],
          adc |-> [h EXCEPT !.width = adc_width], err |-> "none"]

(* __init__(pin, div, vref, samples, name), lines 147-165 *)
init_call(div, vref, samples, reg) ==
    LET s0 == [NewSelf EXCEPT
                 !.div = div,
                 !.width = 3,
                 !.samples = samples,
                 !.vref = IF vref = None THEN read_efuse_vref(reg) ELSE vref,
                 !.atten = None]
    IN  atten_call(s0, NewADC, ATTN_6DB, FALSE)

(* self.read(): a sample of the peripheral's current width *)
SampleValues(h) ==
    {PyShr(c, 3 - h.width) : c \in KeyCodes} \cup {Pow2(9 + h.width) - 1}

(* the loop of lines 286-287: the sums n reads can accumulate *)
RECURSIVE SampleSums(_, _)
SampleSums(h, n) ==
    IF n = 0 THEN {0}
    ELSE {a + v : a \in SampleSums(h, n - 1), v \in SampleValues(h)}

(* line 290 *)
voltage_average(sum, samples) == PyRoundDiv(sum, samples)

(* the shift of line 293 taken from 4 instead of 3 *)
voltage_extend_wide(raw_val, width) == PyShl(raw_val, 4 - width)

(* line 293 *)
voltage_extend(raw_val, width) == PyShl(raw_val, 3 - width)

(* line 295 *)
voltage_uses_lut(atten, raw_val) ==
    atten = ATTN_11DB /\ raw_val >= LUT_LOW_THRESH

(* the transition band without its upper end *)
voltage_in_transition_strict(raw_val) == raw_val < LUT_HIGH_THRESH

(* line 299 *)
voltage_in_transition(raw_val) == raw_val <= LUT_HIGH_THRESH

(* lines 295-307: the voltage before the divider *)
voltage_model(s, raw_val) ==
    IF voltage_uses_lut(s.atten, raw_val)
    THEN LET lut_voltage == calculate_voltage_lut(s.vref, raw_val)
         IN  IF voltage_in_transition(raw_val)
             THEN interpolate_two_points(
                      calculate_voltage_linear(s.coeff_a, s.coeff_b, raw_val),
                      lut_voltage, LUT_ADC_STEP_SIZE, raw_val - LUT_LOW_THRESH)
             ELSE lut_voltage
    ELSE calculate_voltage_linear(s.coeff_a, s.coeff_b, raw_val)

(* line 310 *)
voltage_divide(voltage, div) == RatDiv(voltage, Rat(div, 1))

(* lines 290-293: the normalized 12-bit sample *)
voltage_raw(s, sum) ==
    voltage_extend(voltage_average(sum, s.samples), s.width)

(* lines 295-312, for the normalized sample raw_val *)
voltage_result(s, raw_val) ==
    IF voltage_uses_lut(s.atten, raw_val) /\ ~lut_index_ok(raw_val)
    THEN [NoCall EXCEPT !.op = "voltage", !.err = "IndexError",
                        !.raw = raw_val, !.lut = raw_val]
    ELSE [NoCall EXCEPT
            !.op = "voltage",
            !.raw = raw_val,
            !.lut = IF voltage_uses_lut(s.atten, raw_val) THEN raw_val ELSE None,
            !.voltage = voltage_divide(voltage_model(s, raw_val), s.div)]

(* the voltage property, lines 273-312; sums: what the reads can add up to *)
voltage_call(s, sums) ==
    IF s.atten = None
    THEN {[NoCall EXCEPT !.op = "voltage", !.err = "AssertionError"]}
    ELSE IF s.samples = 0
    THEN {[NoCall EXCEPT !.op = "voltage", !.err = "ZeroDivisionError"]}
    ELSE {voltage_result(s, raw_val) :
             raw_val \in {voltage_raw(s, sum) : sum \in sums}}

---------------------------------------------------------------------------
(* Serialized use of one instance: every call runs to completion *)

Init ==
    /\ self = NewSelf
    /\ adc = NewADC
    /\ last = NoCall
    /\ conc = Idle
    /\ fuse = NoFuse

Construct ==
    /\ last.op = "new"
    /\ \E div \in DivArgs, vref \in VrefArgs, samples \in SamplesArgs,
          reg \in EfuseRegs :
          LET r == init_call(div, vref, samples, reg)
          IN  /\ self' = r.self
              /\ adc' = r.adc
              /\ last' = [NoCall EXCEPT !.op = "init", !.err = r.err]
    /\ UNCHANGED <<conc, fuse>>

Atten ==
    /\ last.op # "new"
    /\ \E attenuation \in ConfigArgs, lenient \in BOOLEAN :
          LET r == atten_call(self, adc, attenuation, lenient)
          IN  /\ self' = r.self
              /\ adc' = r.adc
              /\ last' = [NoCall EXCEPT !.op = "atten", !.arg = attenuation,
                                        !.err = r.err]
    /\ UNCHANGED <<conc, fuse>>

Width ==
    /\ last.op # "new"
    /\ \E adc_width \in ConfigArgs :
          LET r == width_call(self, adc, adc_width)
          IN  /\ self' = r.self
              /\ adc' = r.adc
              /\ last' = [NoCall EXCEPT !.op = "width", !.arg = adc_width,
                                        !.err = r.err]
    /\ UNCHANGED <<conc, fuse>>

Voltage ==
    /\ last.op # "new"
    /\ last' \in voltage_call(self, SampleSums(adc, self.samples))
    /\ UNCHANGED <<self, adc, conc, fuse>>

Next == Construct \/ Atten \/ Width \/ Voltage

Spec == Init /\ [][Next]_vars

---------------------------------------------------------------------------
(* Properties of the serialized engine *)

ClaimScale(level) == <<57431, 76236, 105481, 196602>>[(level % 4) + 1]

ClaimOffset(level) == <<75, 78, 107, 142>>[(level % 4) + 1]

ClaimCoeffA(vref, level) == RatDiv(Rat(vref * ClaimScale(level), 1), Rat(4096, 1))

ClaimLinear(vref, level, sample) ==
    RatAdd(RatDiv(RatAdd(RatMul(ClaimCoeffA(vref, level), Rat(sample, 1)),
                         Rat(32768, 1)),
                  Rat(65536, 1)),
           Rat(ClaimOffset(level), 1))

ReadDone == last.op = "voltage" /\ last.err = "none"

(* C1: once constructed, and after any sequence of atten(), width() and    *)
(* voltage reads, coeff_a = vref * SCALE[_atten] / 4096 and                *)
(* coeff_b = OFFSET[_atten] (Python indexing), and every read that uses    *)
(* the linear model computes it with the pair of the current attenuation.  *)
C1_CoefficientsCurrent ==
    last.op # "new" =>
        /\ RatEq(self.coeff_a, ClaimCoeffA(self.vref, self.atten))
        /\ self.coeff_b = ClaimOffset(self.atten)
        /\ (ReadDone /\ last.lut = None) =>
              RatEq(RatMul(last.voltage, Rat(self.div, 1)),
                    ClaimLinear(self.vref, self.atten, last.raw))

C1_Witness ==
    /\ ReadDone
    /\ self.atten = ATTN_0DB
    /\ self.coeff_b = 75
    /\ last.raw = 2944
    /\ self.vref = 995

InvalidConfigCall(l) == l.op \in {"atten", "width"} /\ l.arg \notin 0 .. 3

ClaimBlend(linear, table, s) ==
    RatDiv(RatAdd(RatSub(RatAdd(RatMul(linear, Rat(64, 1)),
                                RatMul(table, Rat(s - 2880, 1))),
                         RatMul(linear, Rat(s - 2880, 1))),
                  Rat(32, 1)),
           Rat(64, 1))

ClaimSelected(s) ==
    LET linear == ClaimLinear(self.vref, self.atten, s)
    IN  IF self.atten # 3 \/ s < 2880 THEN linear
        ELSE IF s <= 2944
        THEN ClaimBlend(linear, calculate_voltage_lut(self.vref, s), s)
        ELSE calculate_voltage_lut(self.vref, s)

C3_ModelSelection ==
    ReadDone =>
        RatEq(RatMul(last.voltage, Rat(self.div, 1)), ClaimSelected(last.raw))

C3_Witness ==
    /\ ReadDone
    /\ self.atten = ATTN_11DB
    /\ last.raw = 2912
    /\ self.div = 2
    /\ self.width = 2

(* C8: every invocation of the table corrector during a read has a         *)
(* normalized sample in 2880..4095 and an index                            *)
(* i = floor((sample - 2880) / 64) with 0 <= i <= 18, so that i and i+1    *)
(* index the 20-entry tables.                                              *)
C8_LutIndexInRange ==
    (last.op = "voltage" /\ last.lut # None) =>
        /\ last.lut \in 2880 .. 4095
        /\ (last.lut - 2880) \div 64 \in 0 .. 18
        /\ last.err = "none"

C8_Witness ==
    /\ ReadDone
    /\ last.lut = 4088
    /\ self.width = WIDTH_9BIT
    /\ self.samples = 2

C6_BandEnds ==
    (ReadDone /\ self.atten = ATTN_11DB /\ self.vref \in 1000 .. 1200) =>
        LET blended == RatMul(last.voltage, Rat(self.div, 1))
            linear == ClaimLinear(self.vref, 3, 2880)
        IN  /\ last.raw = 2880 =>
                  /\ RatLe(blended, RatAdd(linear, Rat(1, 1)))
                  /\ RatLe(linear, RatAdd(blended, Rat(1, 1)))
            /\ last.raw = 2944 =>
                  RatEq(blended, calculate_voltage_lut(self.vref, 2944))

---------------------------------------------------------------------------
(* The efuse functions on their own: the register holds any field in bits  *)
(* [12:8] and anything in the other bits; decode_bits is applied to the    *)
(* field under both encodings.                                             *)

FuseFields == 0 .. 31
FuseOtherBits == {0, 255, 1048576 + 8192 + 255}
FuseRegs == {f * 256 + o : f \in FuseFields, o \in FuseOtherBits}
FuseMasks == {7, VREF_MASK}

FuseInit ==
    /\ self = NewSelf
    /\ adc = NewADC
    /\ last = NoCall
    /\ conc = Idle
    /\ fuse \in {[NoFuse EXCEPT !.reg = r, !.mask = m] :
                    r \in FuseRegs, m \in FuseMasks}

FuseResolve ==
    /\ ~fuse.resolved
    /\ fuse' = [fuse EXCEPT !.resolved = TRUE,
                            !.vref = read_efuse_vref(fuse.reg)]
    /\ UNCHANGED <<self, adc, last, conc>>

FuseDecode ==
    /\ ~fuse.decoded
    /\ LET bits == PyAnd(PyShr(fuse.reg, 8), fuse.mask)
       IN  fuse' = [fuse EXCEPT !.decoded = TRUE,
                                !.bits = bits,
                                !.twos = decode_bits(bits, fuse.mask, 1),
                                !.signmag = decode_bits(bits, fuse.mask, 0)]
    /\ UNCHANGED <<self, adc, last, conc>>

FuseNext == FuseResolve \/ FuseDecode

SpecFuse == FuseInit /\ [][FuseNext]_vars

ClaimField == (fuse.reg \div 256) % 32

(* C4 as stated: the resolver returns 1100 mV for fuse field 0 and         *)
(* 1100 - 31*7 = 893 mV for fuse field 0x1F.                               *)
C4_Claim ==
    fuse.resolved =>
        /\ ClaimField = 0 => fuse.vref = 1100
        /\ ClaimField = 31 => fuse.vref = 893

(* C4 amended: the resolver returns 1100 mV for fuse field 0 and           *)
(* 1100 - 15*7 = 995 mV for fuse field 0x1F (sign bit plus a 4-bit         *)
(* magnitude of 15).                                                       *)
C4_ResolverEndpoints ==
    fuse.resolved =>
        /\ ClaimField = 0 => fuse.vref = 1100
        /\ ClaimField = 31 => fuse.vref = 995

C4_Witness ==
    /\ fuse.resolved
    /\ ClaimField = 31
    /\ fuse.reg = 31 * 256 + 1048576 + 8192 + 255
    /\ fuse.vref = 995

(* C5 as stated: for every value of the register the resolved reference    *)
(* voltage lies in 1000..1200, so x1dist = vref - 1000 and                 *)
(* x2dist = 1200 - vref are non-negative.                                  *)
C5_Claim ==
    fuse.resolved =>
        /\ fuse.vref \in 1000 .. 1200
        /\ lut_x1dist(fuse.vref) >= 0
        /\ lut_x2dist(fuse.vref) >= 0

(* C5 amended: for every value of the register the resolved reference      *)
(* voltage is an integer in 995..1205 (1100 +/- 15*7), so x1dist and       *)
(* x2dist are at least -5; both are non-negative exactly when the 4-bit    *)
(* magnitude of the fuse field is not 15.                                  *)
C5_ResolverRange ==
    fuse.resolved =>
        /\ fuse.vref \in 995 .. 1205
        /\ lut_x1dist(fuse.vref) >= -5
        /\ lut_x2dist(fuse.vref) >= -5
        /\ (lut_x1dist(fuse.vref) >= 0 /\ lut_x2dist(fuse.vref) >= 0)
              <=> (ClaimField % 16 # 15)

C5_Witness ==
    /\ fuse.resolved
    /\ ClaimField = 15
    /\ fuse.vref = 1205
    /\ lut_x2dist(fuse.vref) = -5

(* Re-encoding a decoded value in a field of the mask's width *)
EncodeTwos(v, mask) == v % (mask + 1)

EncodeSignMag(v, mask) == IF v < 0 THEN ((mask + 1) \div 2) + (-v) ELSE v

ClaimSignSet == fuse.bits >= (fuse.mask + 1) \div 2

ClaimMagnitude == fuse.bits % ((fuse.mask + 1) \div 2)

(* C7 as stated: with the sign bit clear decode_bits returns the pattern   *)
(* under both encodings; with it set the two decodings differ and each     *)
(* decoded value re-encodes to the original pattern.                       *)
C7_Claim ==
    fuse.decoded =>
        /\ ~ClaimSignSet =>
              (fuse.twos = fuse.bits /\ fuse.signmag = fuse.bits)
        /\ ClaimSignSet =>
              /\ fuse.twos # fuse.signmag
              /\ EncodeTwos(fuse.twos, fuse.mask) = fuse.bits
              /\ EncodeSignMag(fuse.signmag, fuse.mask) = fuse.bits

(* C7 amended: with the sign bit clear decode_bits returns the pattern     *)
(* under both encodings; with it set the two decodings differ except when  *)
(* the magnitude bits are 0 or half the magnitude range (0x10 and 0x18     *)
(* for mask 0x1F), and each decoded value re-encodes to the original       *)
(* pattern except when the magnitude bits are 0 (0x10), where both         *)
(* decodings give 0.                                                       *)
C7_DecodeBits ==
    fuse.decoded =>
        /\ ~ClaimSignSet =>
              (fuse.twos = fuse.bits /\ fuse.signmag = fuse.bits)
        /\ ClaimSignSet =>
              /\ (fuse.twos = fuse.signmag) <=>
                    ClaimMagnitude \in {0, (fuse.mask + 1) \div 4}
              /\ ClaimMagnitude # 0 =>
                    /\ EncodeTwos(fuse.twos, fuse.mask) = fuse.bits
                    /\ EncodeSignMag(fuse.signmag, fuse.mask) = fuse.bits
              /\ ClaimMagnitude = 0 => (fuse.twos = 0 /\ fuse.signmag = 0)

C7_Witness ==
    /\ fuse.decoded
    /\ fuse.mask = 31
    /\ fuse.bits = 24
    /\ fuse.twos = -8
    /\ fuse.signmag = -8

---------------------------------------------------------------------------
(* Two execution contexts on one instance without mutual exclusion: one    *)
(* runs atten() statement by statement, the other a voltage read in three  *)
(* steps (sampling, the test of line 295, the computation).                *)

ConcInit ==
    /\ \E div \in DivArgs :
          LET r == init_call(div, 1065, 1, 0)
          IN  self = r.self /\ adc = r.adc
    /\ last = [NoCall EXCEPT !.op = "init"]
    /\ conc = Idle
    /\ fuse = NoFuse

Reading == conc.pcR # "idle"

(* line 179 *)
AttenSuper ==
    /\ conc.pcA = "idle"
    /\ \E attenuation \in ValidLevels :
          /\ ADC_atten_accepts(attenuation, FALSE)
          /\ adc' = [adc EXCEPT !.atten = attenuation]
          /\ conc' = [conc EXCEPT !.pcA = "coeff_a", !.argA = attenuation,
                                  !.overlap = @ \/ Reading]
    /\ UNCHANGED <<self, last, fuse>>

(* line 180 *)
AttenCoeffA ==
    /\ conc.pcA = "coeff_a"
    /\ self' = [self EXCEPT !.coeff_a = atten_coeff_a(self.vref, conc.argA)]
    /\ conc' = [conc EXCEPT !.pcA = "coeff_b", !.overlap = @ \/ Reading]
    /\ UNCHANGED <<adc, last, fuse>>

(* line 181 *)
AttenCoeffB ==
    /\ conc.pcA = "coeff_b"
    /\ self' = [self EXCEPT !.coeff_b = atten_coeff_b(conc.argA)]
    /\ conc' = [conc EXCEPT !.pcA = "atten", !.overlap = @ \/ Reading]
    /\ UNCHANGED <<adc, last, fuse>>

(* line 182 *)
AttenRecord ==
    /\ conc.pcA = "atten"
    /\ self' = [self EXCEPT !.atten = atten_record(conc.argA)]
    /\ conc' = [conc EXCEPT !.pcA = "idle", !.argA = None,
                            !.overlap = @ \/ Reading]
    /\ UNCHANGED <<adc, last, fuse>>

(* lines 281-293 *)
ReadSample ==
    /\ conc.pcR = "idle"
    /\ self.atten # None
    /\ \E sum \in SampleSums(adc, self.samples) :
          conc' = [conc EXCEPT !.pcR = "select",
                               !.raw = voltage_raw(self, sum),
                               !.selAtten = None,
                               !.usedA = NoRat,
                               !.usedB = None,
                               !.voltage = NoRat,
                               !.overlap = conc.pcA # "idle"]
    /\ last' = [NoCall EXCEPT !.op = "reading"]
    /\ UNCHANGED <<self, adc, fuse>>

(* line 295: the attenuation the region is selected with *)
ReadSelect ==
    /\ conc.pcR = "select"
    /\ conc' = [conc EXCEPT !.pcR = "compute", !.selAtten = self.atten]
    /\ UNCHANGED <<self, adc, last, fuse>>

(* lines 297-312: the coefficients are read when the model is evaluated *)
ReadCompute ==
    /\ conc.pcR = "compute"
    /\ LET r == voltage_result([self EXCEPT !.atten = conc.selAtten], conc.raw)
           linear == ~voltage_uses_lut(conc.selAtten, conc.raw)
                     \/ voltage_in_transition(conc.raw)
       IN  /\ last' = r
           /\ conc' = [conc EXCEPT
                         !.pcR = "idle",
                         !.usedA = IF linear THEN self.coeff_a ELSE NoRat,
                         !.usedB = IF linear THEN self.coeff_b ELSE None,
                         !.voltage = r.voltage]
    /\ UNCHANGED <<self, adc, fuse>>

ConcNext ==
    \/ AttenSuper \/ AttenCoeffA \/ AttenCoeffB \/ AttenRecord
    \/ ReadSample \/ ReadSelect \/ ReadCompute

SpecConc == ConcInit /\ [][ConcNext]_vars

(* A finished read that computed with coefficients of another attenuation  *)
(* than the one it selected its region with                                *)
StaleRead ==
    /\ ReadDone
    /\ conc.pcR = "idle"
    /\ conc.usedB # None
    /\ \/ conc.usedB # ClaimOffset(conc.selAtten)
       \/ ~RatEq(conc.usedA, ClaimCoeffA(self.vref, conc.selAtten))

(* C10: atten() is not atomic with respect to a voltage read: a read       *)
(* interleaved with the statements of atten() can select its region with   *)
(* one attenuation and compute with the coefficients of another; a read    *)
(* that no statement of atten() overlaps never does.                       *)
C10_StaleOnlyWhenInterleaved == StaleRead => conc.overlap

C10_Witness ==
    /\ StaleRead
    /\ conc.overlap
    /\ conc.selAtten = ATTN_6DB
    /\ conc.usedB = 142
    /\ conc.raw >= 2880
    /\ last.lut = None

=============================================================================
